---------------------------- MODULE Spec2Model ----------------------------
(***************************************************************************)
(* A model of filter.py, the filter for PostiATS messages: the iterated    *)
(* String (a cursor with a stack of saved indexes), the tokenizer, the     *)
(* node parser, the simplified node images, the line formatter, folded()   *)
(* and main().                                                             *)
(*                                                                         *)
(* A Python str is a sequence of one-character strings.  Indexes are       *)
(* 0-based as in the source: the item at index i of s is s[i + 1].         *)
(* A function that returns None on failure returns a record with           *)
(* ok = FALSE.  An exception raised by the code (IndexError, ValueError)   *)
(* is the flag err, which ends the operation that was running.             *)
(***************************************************************************)
EXTENDS Integers, Sequences, FiniteSets, TLC

VARIABLES
    text,       \* String.string: the text being scanned
    index,      \* String.index
    indexes,    \* String.indexes: the stack of saved indexes
    result,     \* folded: the output built so far
    trees,      \* folded: the root nodes found so far
    tree_i,     \* folded: how many trees the final loop has rendered
    spans,      \* history: <<start, end>> of the text each tree was parsed from
    pc,         \* where the running function stands
    tok,        \* parse_token: the (token, kind) found, if any
    attempt,    \* parse_token: which of the five methods is tried next
    lines,      \* format_lines: result, the lines after the last pass
    changed,    \* format_lines: changed
    npass,      \* format_lines: passes run so far
    stdin_line, \* main: the line read from stdin
    stripped,   \* main: line, once reassigned to line.strip()
    output      \* main: what print wrote

vars == <<text, index, indexes, result, trees, tree_i, spans, pc, tok,
          attempt, lines, changed, npass, stdin_line, stripped, output>>

Min(a, b) == IF a < b THEN a ELSE b

\* The member of a one-member set.  The({F(x) : x \in {e}}) is F(e), with x
\* naming the value of e: the result of a call of the source that the
\* caller holds in a local variable.
The(S) == CHOOSE x \in S : TRUE

\* Python's s[i:j] for 0 <= i, 0 <= j
Slice(s, i, j) == SubSeq(s, i + 1, Min(j, Len(s)))

(***************************************************************************)
(* Character classes.  str.isalpha, str.isnumeric and str.isalnum on the   *)
(* ASCII characters.                                                       *)
(***************************************************************************)
Alpha ==
    {"a","b","c","d","e","f","g","h","i","j","k","l","m","n","o","p","q",
     "r","s","t","u","v","w","x","y","z","A","B","C","D","E","F","G","H",
     "I","J","K","L","M","N","O","P","Q","R","S","T","U","V","W","X","Y",
     "Z"}

Numeric == {"0","1","2","3","4","5","6","7","8","9"}

Alnum == Alpha \cup Numeric

is_name_head_char == Alpha \cup {"_"}

is_name_tail_char == Alnum \cup {"_", "'"}

is_symbol_char ==
    {"[","]","<",">",".","-","+","/","%","=","~","*","&","|"}

(***************************************************************************)
(* Iterated String.  A cursor c is the mutable part of a String object:    *)
(* [index, indexes, err].                                                  *)
(***************************************************************************)
Cursor(i, stk) == [index |-> i, indexes |-> stk, err |-> FALSE]

has_item(s, c) == c.index < Len(s)

item(s, c) == s[c.index + 1]

consume(c) == [c EXCEPT !.index = @ + 1]

push(c) == [c EXCEPT !.indexes = Append(@, c.index)]

unpush(c) ==
    IF Len(c.indexes) = 0
    THEN [c EXCEPT !.err = TRUE]
    ELSE [c EXCEPT !.indexes = SubSeq(@, 1, Len(@) - 1)]

pop(c) ==
    IF Len(c.indexes) = 0
    THEN [c EXCEPT !.err = TRUE]
    ELSE [c EXCEPT !.index = c.indexes[Len(c.indexes)],
                   !.indexes = SubSeq(@, 1, Len(@) - 1)]

test_and_consume(s, c, string) ==
    LET i == c.index
        j == i + Len(string)
    IN  IF Slice(s, i, j) = string
        THEN [ok |-> TRUE, c |-> [c EXCEPT !.index = j]]
        ELSE [ok |-> FALSE, c |-> c]

\* The loops `while string.has_item() and <class>(string.item()): consume()`:
\* the index at which the loop started at i stops.
RECURSIVE run_end(_, _, _)
run_end(s, i, Class) ==
    IF i < Len(s) /\ s[i + 1] \in Class THEN run_end(s, i + 1, Class) ELSE i

(***************************************************************************)
(* Tokens.  Each parse_xxx returns [ok, tok, c]: ok = FALSE is None, c is  *)
(* the cursor as the function leaves it.                                   *)
(***************************************************************************)
KIND_D2S2C3 == 1
KIND_NAME == 2
KIND_NAME_ID == 3
KIND_NUMERIC == 4
KIND_SYMBOL == 5

NoToken(c) == [ok |-> FALSE, tok |-> <<>>, c |-> c]

parse_d2s2c3_name(s, c) ==
    LET d2 == test_and_consume(s, c, <<"D", "2">>)
        s2 == test_and_consume(s, c, <<"S", "2">>)
        c3 == test_and_consume(s, c, <<"C", "3">>)
        p  == IF d2.ok THEN d2 ELSE IF s2.ok THEN s2 ELSE c3
        prefix == Slice(s, c.index, p.c.index)
    IN  IF p.ok /\ has_item(s, p.c) /\ item(s, p.c) \in Alpha
        THEN LET e == run_end(s, p.c.index, Alpha)
             IN  [ok |-> TRUE,
                  tok |-> prefix \o Slice(s, p.c.index, e),
                  c |-> [p.c EXCEPT !.index = e]]
        ELSE NoToken(p.c)

parse_numeric(s, c) ==
    LET c1 == push(c)
        neg == has_item(s, c1) /\ item(s, c1) = "-"
        c2 == IF neg THEN consume(c1) ELSE c1
    IN  IF has_item(s, c1) /\ has_item(s, c2) /\ item(s, c2) \in Numeric
        THEN LET e == run_end(s, c2.index, Numeric)
                 digits == Slice(s, c2.index, e)
             IN  [ok |-> TRUE,
                  tok |-> IF neg THEN <<"-">> \o digits ELSE digits,
                  c |-> unpush([c2 EXCEPT !.index = e])]
        ELSE NoToken(pop(c2))

parse_name(s, c) ==
    IF has_item(s, c) /\ item(s, c) \in is_name_head_char
    THEN LET e == run_end(s, c.index + 1, is_name_tail_char)
         IN  [ok |-> TRUE,
              tok |-> Slice(s, c.index, e),
              c |-> [c EXCEPT !.index = e]]
    ELSE NoToken(c)

parse_name_id(s, c) ==
    The({
        IF ~name_part.ok THEN NoToken(pop(name_part.c))
        ELSE The({
            IF ~dollar.ok THEN NoToken(pop(dollar.c))
            ELSE The({
                IF ~id_part.ok THEN NoToken(pop(id_part.c))
                ELSE [ok |-> TRUE,
                      tok |-> name_part.tok \o <<"$">> \o id_part.tok,
                      c |-> unpush(id_part.c)]
                : id_part \in {parse_numeric(s, dollar.c)}})
            : dollar \in {test_and_consume(s, name_part.c, <<"$">>)}})
        : name_part \in {parse_name(s, push(c))}})

parse_symbol(s, c) ==
    IF has_item(s, c) /\ item(s, c) \in is_symbol_char
    THEN LET e == run_end(s, c.index + 1, is_symbol_char)
         IN  [ok |-> TRUE,
              tok |-> Slice(s, c.index, e),
              c |-> [c EXCEPT !.index = e]]
    ELSE NoToken(c)

\* The methods of parse_token, in the order of its `or` chain.
TOKEN_KINDS ==
    <<KIND_D2S2C3, KIND_NAME_ID, KIND_NAME, KIND_NUMERIC, KIND_SYMBOL>>

\* try_token(method, kind) with the n-th method of the chain:
\* [ok, tok, kind, c].
try_token(s, c, n) ==
    LET r == CASE n = 1 -> parse_d2s2c3_name(s, c)
               [] n = 2 -> parse_name_id(s, c)
               [] n = 3 -> parse_name(s, c)
               [] n = 4 -> parse_numeric(s, c)
               [] OTHER -> parse_symbol(s, c)
    IN  [ok |-> r.ok, tok |-> r.tok, kind |-> TOKEN_KINDS[n], c |-> r.c]

RECURSIVE token_from(_, _, _)
token_from(s, c, n) ==
    The({
        IF r.ok \/ n = Len(TOKEN_KINDS) THEN r ELSE token_from(s, r.c, n + 1)
        : r \in {try_token(s, c, n)}})

parse_token(s, c) == token_from(s, c, 1)


(***************************************************************************)
(* Nodes.  A Node is [token, kind, nodes_none, nodes, end]: nodes_none     *)
(* says that Node.nodes is None, and nodes is then <<>>.                   *)
(***************************************************************************)
FOLLOWED_BY_SEMI_COLON == 1
FOLLOWED_BY_COMMA == 2
FOLLOWED_BY_ARROW == 3
FOLLOWED_BY_END == 4

Node(token, kind, nodes_none, nodes, end) ==
    [token |-> token, kind |-> kind, nodes_none |-> nodes_none,
     nodes |-> nodes, end |-> end]

\* The node returned with ok = FALSE (None) is never read.
NoNode(c) ==
    [ok |-> FALSE, node |-> Node(<<>>, 0, TRUE, <<>>, 0), c |-> c]

get_end_kind(s, c) ==
    LET semi == test_and_consume(s, c, <<";", " ">>)
        comma == test_and_consume(s, c, <<",", " ">>)
        arrow == test_and_consume(s, c, <<"-", ">">>)
    IN  IF semi.ok THEN [end |-> FOLLOWED_BY_SEMI_COLON, c |-> semi.c]
        ELSE IF comma.ok THEN [end |-> FOLLOWED_BY_COMMA, c |-> comma.c]
        ELSE IF arrow.ok THEN [end |-> FOLLOWED_BY_ARROW, c |-> arrow.c]
        ELSE [end |-> FOLLOWED_BY_END, c |-> c]

RECURSIVE parse_node(_, _)
RECURSIVE parse_nodes(_, _)
RECURSIVE parse_nodes_loop(_, _, _)

\* [ok, node, c]; c.err when parse_nodes raised IndexError.
parse_node(s, c) ==
    The({
        IF ~token_kind.ok THEN NoNode(token_kind.c)
        ELSE The({
            IF ~open.ok
            THEN The({
                [ok |-> TRUE,
                 node |-> Node(token_kind.tok, token_kind.kind, TRUE, <<>>,
                               e.end),
                 c |-> e.c]
                : e \in {get_end_kind(s, open.c)}})
            ELSE The({
                IF ns.c.err \/ ~ns.ok THEN NoNode(ns.c)
                ELSE The({
                    IF ~close.ok THEN NoNode(close.c)
                    ELSE The({
                        [ok |-> TRUE,
                         node |-> Node(token_kind.tok, token_kind.kind,
                                       FALSE, ns.nodes, e.end),
                         c |-> e.c]
                        : e \in {get_end_kind(s, close.c)}})
                    : close \in {test_and_consume(s, ns.c, <<")">>)}})
                : ns \in {parse_nodes(s, open.c)}})
            : open \in {test_and_consume(s, token_kind.c, <<"(">>)}})
        : token_kind \in {parse_token(s, c)}})

\* parse_nodes_loop with `break` alone where a child fails to parse: the
\* children parsed so far are kept.
RECURSIVE parse_nodes_loop_keeps_on_failure(_, _, _)
parse_nodes_loop_keeps_on_failure(s, c, acc) ==
    The({
        IF n.c.err THEN [ok |-> FALSE, nodes |-> <<>>, c |-> n.c]
        ELSE IF ~n.ok THEN [ok |-> TRUE, nodes |-> acc, c |-> n.c]
        ELSE IF n.node.end = FOLLOWED_BY_END
        THEN [ok |-> TRUE, nodes |-> Append(acc, n.node), c |-> n.c]
        ELSE parse_nodes_loop_keeps_on_failure(s, n.c, Append(acc, n.node))
        : n \in {parse_node(s, c)}})

\* The `while True` loop of parse_nodes, with result = acc.
parse_nodes_loop(s, c, acc) ==
    The({
        IF n.c.err \/ ~n.ok THEN [ok |-> FALSE, nodes |-> <<>>, c |-> n.c]
        ELSE IF n.node.end = FOLLOWED_BY_END
        THEN [ok |-> TRUE, nodes |-> Append(acc, n.node), c |-> n.c]
        ELSE parse_nodes_loop(s, n.c, Append(acc, n.node))
        : n \in {parse_node(s, c)}})

\* [ok, nodes, c].  string.item() raises IndexError when the text is
\* exhausted.
parse_nodes(s, c) ==
    IF ~has_item(s, c)
    THEN [ok |-> FALSE, nodes |-> <<>>, c |-> [c EXCEPT !.err = TRUE]]
    ELSE IF item(s, c) = ")" THEN [ok |-> TRUE, nodes |-> <<>>, c |-> c]
    ELSE parse_nodes_loop(s, c, <<>>)

(***************************************************************************)
(* Words and lines.                                                        *)
(***************************************************************************)
WORD_TOKEN == 1
WORD_SEPARATOR == 2
WORD_OPERATOR == 3
WORD_OPEN == 4
WORD_CLOSE == 5

LINE_WIDTH == 78

Word(txt, level, kind) == [text |-> txt, level |-> level, kind |-> kind]

Line(indent, words) == [indent |-> indent, words |-> words]

RECURSIVE Spaces(_)
Spaces(n) == IF n <= 0 THEN <<>> ELSE <<" ">> \o Spaces(n - 1)

\* The while loop of line_image from word i (1-based here) on.
RECURSIVE line_image_from(_, _)
line_image_from(words, i) ==
    IF i > Len(words) THEN <<>>
    ELSE LET word == words[i]
             before == IF word.kind = WORD_OPERATOR /\ i > 1
                       THEN <<" ">> ELSE <<>>
             after1 == IF word.kind = WORD_OPERATOR /\ i < Len(words)
                       THEN <<" ">> ELSE <<>>
             after2 == IF word.kind = WORD_SEPARATOR /\ i < Len(words)
                       THEN <<" ">> ELSE <<>>
         IN  before \o word.text \o after1 \o after2
                 \o line_image_from(words, i + 1)

line_image(line) == Spaces(2 * line.indent) \o line_image_from(line.words, 1)

RECURSIVE lines_image(_)
lines_image(ls) ==
    IF ls = <<>> THEN <<>>
    ELSE line_image(Head(ls)) \o <<"\n">> \o lines_image(Tail(ls))

\* append_words_as_line without `if len(words) > 0`.
append_words_as_line_unguarded(res, words, indent) ==
    Append(res, Line(indent, words))

append_words_as_line(res, words, indent) ==
    IF Len(words) > 0 THEN Append(res, Line(indent, words)) ELSE res

\* The while loop of splitted_at_separator from word i on.
RECURSIVE separator_loop(_, _, _, _, _)
separator_loop(line, level, i, line_words, res) ==
    IF i > Len(line.words)
    THEN append_words_as_line(res, line_words, line.indent)
    ELSE LET word == line.words[i]
             ws == Append(line_words, word)
         IN  IF word.kind = WORD_SEPARATOR /\ word.level = level
             THEN separator_loop(line, level, i + 1, <<>>,
                                 Append(res, Line(line.indent, ws)))
             ELSE separator_loop(line, level, i + 1, ws, res)

splitted_at_separator(line) ==
    IF Len(line.words) > 0
    THEN separator_loop(line, line.words[1].level, 1, <<>>, <<>>)
    ELSE <<line>>

\* The while loop of splitted_at_operator from word i on.
RECURSIVE operator_loop(_, _, _, _, _)
operator_loop(line, level, i, line_words, res) ==
    IF i > Len(line.words)
    THEN append_words_as_line(res, line_words, line.indent)
    ELSE LET word == line.words[i]
         IN  IF word.kind = WORD_OPERATOR /\ word.level = level
             THEN operator_loop(line, level, i + 1, <<word>>,
                      append_words_as_line(res, line_words, line.indent))
             ELSE operator_loop(line, level, i + 1,
                                Append(line_words, word), res)

splitted_at_operator(line) ==
    IF Len(line.words) > 0
    THEN operator_loop(line, line.words[1].level, 1, <<>>, <<>>)
    ELSE <<line>>

\* part(cond, indent) of indented_on_next_level: the index at which its
\* while loop started at i stops.
RECURSIVE part_end(_, _, _, _)
part_end(words, level, cond, i) ==
    IF i <= Len(words) /\ ((words[i].level = level) = cond)
    THEN part_end(words, level, cond, i + 1)
    ELSE i

\* The `while i <= last` loop of indented_on_next_level.
RECURSIVE next_level_loop(_, _, _, _)
next_level_loop(line, level, i, res) ==
    IF i > Len(line.words) THEN res
    ELSE The({
        The({
            next_level_loop(line, level, k,
                append_words_as_line(
                    append_words_as_line(res, SubSeq(line.words, i, j - 1),
                                         line.indent),
                    SubSeq(line.words, j, k - 1), line.indent + 1))
            : k \in {part_end(line.words, level, FALSE, j)}})
        : j \in {part_end(line.words, level, TRUE, i)}})

indented_on_next_level(line) ==
    IF Len(line.words) > 0
    THEN next_level_loop(line, line.words[1].level, 1, <<>>)
    ELSE <<line>>

\* format_line without its last strategy, indented_on_next_level.
format_line_two_strategies(line) ==
    IF Len(line_image(line)) <= LINE_WIDTH THEN <<line>>
    ELSE The({
        IF Len(at_separator) > 1 THEN at_separator
        ELSE The({
            IF Len(at_operator) > 1 THEN at_operator ELSE <<line>>
            : at_operator \in {splitted_at_operator(line)}})
        : at_separator \in {splitted_at_separator(line)}})

\* What one pass of format_lines puts in result for one line.
format_line(line) ==
    IF Len(line_image(line)) <= LINE_WIDTH THEN <<line>>
    ELSE The({
        IF Len(at_separator) > 1 THEN at_separator
        ELSE The({
            IF Len(at_operator) > 1 THEN at_operator
            ELSE The({
                IF Len(on_next_level) > 1 THEN on_next_level ELSE <<line>>
                : on_next_level \in {indented_on_next_level(line)}})
            : at_operator \in {splitted_at_operator(line)}})
        : at_separator \in {splitted_at_separator(line)}})

\* One iteration of `while changed` in format_lines: [result, changed].
RECURSIVE format_pass(_)
format_pass(ls) ==
    IF ls = <<>> THEN [result |-> <<>>, changed |-> FALSE]
    ELSE The({
        [result |-> sublines \o rest.result,
         changed |-> Len(sublines) > 1 \/ rest.changed]
        : sublines \in {format_line(Head(ls))},
          rest \in {format_pass(Tail(ls))}})

RECURSIVE format_lines(_)
format_lines(ls) ==
    The({
        IF p.changed THEN format_lines(p.result) ELSE p.result
        : p \in {format_pass(ls)}})

(***************************************************************************)
(* Node image as a word list, and its simplifications.  Each               *)
(* xxx_simplified_image returns [ok, acc]: its result and acc as it        *)
(* leaves it.                                                              *)
(***************************************************************************)
SIMPLIFY == TRUE

TOKEN_S2Eintinf == <<"S", "2", "E", "i", "n", "t", "i", "n", "f">>
TOKEN_S2Ecst == <<"S", "2", "E", "c", "s", "t">>
TOKEN_D2Evar == <<"D", "2", "E", "v", "a", "r">>
TOKEN_S2Evar == <<"S", "2", "E", "v", "a", "r">>
TOKEN_S2Eapp == <<"S", "2", "E", "a", "p", "p">>
TOKEN_S2Eeqeq == <<"S", "2", "E", "e", "q", "e", "q">>
TOKEN_C3NSTRprop == <<"C", "3", "N", "S", "T", "R", "p", "r", "o", "p">>
TOKEN_C3TKmain == <<"C", "3", "T", "K", "m", "a", "i", "n">>

NAME_mul_int_int == <<"m", "u", "l", "_", "i", "n", "t", "_", "i", "n", "t">>
NAME_add_int_int == <<"a", "d", "d", "_", "i", "n", "t", "_", "i", "n", "t">>
NAME_sub_int_int == <<"s", "u", "b", "_", "i", "n", "t", "_", "i", "n", "t">>

\* The keys of NAME_AS_OPERATOR, and its value at a key.
NAME_AS_OPERATOR_KEYS == {NAME_mul_int_int, NAME_add_int_int, NAME_sub_int_int}

NAME_AS_OPERATOR(token) ==
    IF token = NAME_mul_int_int THEN <<"*">>
    ELSE IF token = NAME_add_int_int THEN <<"+">>
    ELSE <<"*">>

\* int(string) does not raise ValueError: an optional sign, then digits.
\* (No token holds white space, or an underscore after a digit.)
is_int(string) ==
    LET signed == Len(string) > 0 /\ string[1] \in {"-", "+"}
        digits == IF signed THEN Tail(string) ELSE string
    IN  /\ Len(digits) > 0
        /\ \A i \in 1..Len(digits) : digits[i] \in Numeric

NoImage(acc) == [ok |-> FALSE, acc |-> acc]

append_end(node, level, acc) ==
    IF node.end = FOLLOWED_BY_SEMI_COLON
    THEN Append(acc, Word(<<";">>, level, WORD_SEPARATOR))
    ELSE IF node.end = FOLLOWED_BY_COMMA
    THEN Append(acc, Word(<<",">>, level, WORD_SEPARATOR))
    ELSE IF node.end = FOLLOWED_BY_ARROW
    THEN Append(acc, Word(<<"-", ">">>, level, WORD_OPERATOR))
    ELSE acc

RECURSIVE node_image(_, _, _, _)

s2eintinf_simplified_image(node, level, acc) ==
    IF /\ node.token = TOKEN_S2Eintinf
       /\ ~node.nodes_none /\ Len(node.nodes) = 1
       /\ node.nodes[1].nodes_none
    THEN [ok |-> TRUE,
          acc |-> Append(acc, Word(node.nodes[1].token, level, WORD_TOKEN))]
    ELSE NoImage(acc)

s2ecst_simplified_image(node, level, acc) ==
    IF /\ node.token = TOKEN_S2Ecst
       /\ ~node.nodes_none /\ Len(node.nodes) = 1
       /\ node.nodes[1].nodes_none
    THEN LET token == node.nodes[1].token
         IN  [ok |-> TRUE,
              acc |-> IF token \in NAME_AS_OPERATOR_KEYS
                      THEN Append(acc, Word(NAME_AS_OPERATOR(token), level,
                                            WORD_OPERATOR))
                      ELSE Append(acc, Word(token, level, WORD_TOKEN))]
    ELSE NoImage(acc)

d2s2evar_simplified_image(node, level, acc) ==
    IF /\ node.token = TOKEN_D2Evar \/ node.token = TOKEN_S2Evar
       /\ ~node.nodes_none /\ Len(node.nodes) = 1
       /\ ~node.nodes[1].nodes_none /\ Len(node.nodes[1].nodes) = 1
       /\ node.nodes[1].nodes[1].nodes_none
       /\ is_int(node.nodes[1].nodes[1].token)
    THEN [ok |-> TRUE,
          acc |-> Append(acc, Word(node.nodes[1].token, level, WORD_TOKEN))]
    ELSE NoImage(acc)

\* s2eapp_simplified_image without its test of the three nodes' ends.
s2eapp_any_ends(node, level, acc) ==
    IF /\ node.token = TOKEN_S2Eapp
       /\ ~node.nodes_none /\ Len(node.nodes) = 3
    THEN The({
         [ok |-> TRUE,
          acc |->
            IF Len(image1) = 1 /\ image1[1].text[1] \in is_symbol_char
            THEN acc \o <<Word(<<"(">>, level, WORD_OPEN)>>
                     \o image2
                     \o <<Word(image1[1].text, level + 1, WORD_OPERATOR)>>
                     \o image3
                     \o <<Word(<<")">>, level, WORD_CLOSE)>>
            ELSE acc \o image1
                     \o <<Word(<<"(">>, level, WORD_OPEN)>>
                     \o image2
                     \o <<Word(<<",">>, level + 1, WORD_SEPARATOR)>>
                     \o image3
                     \o <<Word(<<")">>, level, WORD_CLOSE)>>]
         : image1 \in {node_image(node.nodes[1], level + 1, <<>>, FALSE)},
           image2 \in {node_image(node.nodes[2], level + 1, <<>>, FALSE)},
           image3 \in {node_image(node.nodes[3], level + 1, <<>>, FALSE)}})
    ELSE NoImage(acc)

s2eapp_simplified_image(node, level, acc) ==
    IF /\ node.token = TOKEN_S2Eapp
       /\ ~node.nodes_none /\ Len(node.nodes) = 3
       /\ node.nodes[1].end = FOLLOWED_BY_SEMI_COLON
       /\ node.nodes[2].end = FOLLOWED_BY_COMMA
       /\ node.nodes[3].end = FOLLOWED_BY_END
    THEN The({
         [ok |-> TRUE,
          acc |->
            IF Len(image1) = 1 /\ image1[1].text[1] \in is_symbol_char
            THEN acc \o <<Word(<<"(">>, level, WORD_OPEN)>>
                     \o image2
                     \o <<Word(image1[1].text, level + 1, WORD_OPERATOR)>>
                     \o image3
                     \o <<Word(<<")">>, level, WORD_CLOSE)>>
            ELSE acc \o image1
                     \o <<Word(<<"(">>, level, WORD_OPEN)>>
                     \o image2
                     \o <<Word(<<",">>, level + 1, WORD_SEPARATOR)>>
                     \o image3
                     \o <<Word(<<")">>, level, WORD_CLOSE)>>]
         : image1 \in {node_image(node.nodes[1], level + 1, <<>>, FALSE)},
           image2 \in {node_image(node.nodes[2], level + 1, <<>>, FALSE)},
           image3 \in {node_image(node.nodes[3], level + 1, <<>>, FALSE)}})
    ELSE NoImage(acc)

s2eeqeq_simplified_image(node, level, acc) ==
    IF /\ node.token = TOKEN_S2Eeqeq
       /\ ~node.nodes_none /\ Len(node.nodes) = 2
       /\ node.nodes[1].end = FOLLOWED_BY_SEMI_COLON
       /\ node.nodes[2].end = FOLLOWED_BY_END
    THEN LET image1 == node_image(node.nodes[1], level + 1, <<>>, FALSE)
             image2 == node_image(node.nodes[2], level + 1, <<>>, FALSE)
         IN  [ok |-> TRUE,
              acc |-> acc \o <<Word(<<"(">>, level, WORD_OPEN)>>
                          \o image1
                          \o <<Word(<<"=", "=">>, level + 1, WORD_OPERATOR)>>
                          \o image2
                          \o <<Word(<<")">>, level, WORD_CLOSE)>>]
    ELSE NoImage(acc)

\* c3nstrprop_simplified_image with the second child one level deeper.
c3nstrprop_second_at_next_level(node, level, acc) ==
    IF /\ node.token = TOKEN_C3NSTRprop
       /\ ~node.nodes_none /\ Len(node.nodes) = 2
       /\ node.nodes[1].token = TOKEN_C3TKmain
       /\ ~node.nodes[1].nodes_none
       /\ Len(node.nodes[1].nodes) = 0
    THEN [ok |-> TRUE,
          acc |-> node_image(node.nodes[2], level + 1, acc, TRUE)]
    ELSE NoImage(acc)

c3nstrprop_simplified_image(node, level, acc) ==
    IF /\ node.token = TOKEN_C3NSTRprop
       /\ ~node.nodes_none /\ Len(node.nodes) = 2
       /\ node.nodes[1].token = TOKEN_C3TKmain
       /\ ~node.nodes[1].nodes_none
       /\ Len(node.nodes[1].nodes) = 0
    THEN [ok |-> TRUE, acc |-> node_image(node.nodes[2], level, acc, TRUE)]
    ELSE NoImage(acc)

name_simplified_image(node, level, acc) ==
    IF /\ node.kind = KIND_NAME
       /\ ~node.nodes_none /\ Len(node.nodes) = 1
       /\ node.nodes[1].nodes_none
       /\ is_int(node.nodes[1].token)
    THEN [ok |-> TRUE, acc |-> Append(acc, Word(node.token, level, WORD_TOKEN))]
    ELSE NoImage(acc)

\* SIMPLIFIED_IMAGE_METHODS[n](node, level, acc)
simplified_image_method(n, node, level, acc) ==
    CASE n = 1 -> s2eintinf_simplified_image(node, level, acc)
      [] n = 2 -> s2ecst_simplified_image(node, level, acc)
      [] n = 3 -> d2s2evar_simplified_image(node, level, acc)
      [] n = 4 -> s2eapp_simplified_image(node, level, acc)
      [] n = 5 -> s2eeqeq_simplified_image(node, level, acc)
      [] n = 6 -> c3nstrprop_simplified_image(node, level, acc)
      [] OTHER -> name_simplified_image(node, level, acc)

\* The for loop of simplified_image from the n-th method on:
\* `result or method(...)` calls no method once result is True.
RECURSIVE simplified_image_from(_, _, _, _)
simplified_image_from(n, node, level, acc) ==
    IF n > 7 THEN NoImage(acc)
    ELSE The({
        IF r.ok THEN r ELSE simplified_image_from(n + 1, node, level, r.acc)
        : r \in {simplified_image_method(n, node, level, acc)}})

simplified_image(node, level, acc) ==
    IF SIMPLIFY THEN simplified_image_from(1, node, level, acc)
    ELSE NoImage(acc)

\* The `for subnode in node.nodes` loop of node_image from subnode i on.
RECURSIVE subnodes_image(_, _, _, _)
subnodes_image(nodes, i, level, acc) ==
    IF i > Len(nodes) THEN acc
    ELSE The({
        subnodes_image(nodes, i + 1, level, image)
        : image \in {node_image(nodes[i], level + 1, acc, TRUE)}})

\* node_image when simplified_image returned False: the generic image.
generic_image(node, level, acc) ==
    IF node.nodes_none THEN Append(acc, Word(node.token, level, WORD_TOKEN))
    ELSE Append(
           subnodes_image(node.nodes, 1, level,
               acc \o <<Word(node.token, level, WORD_TOKEN),
                        Word(<<"(">>, level, WORD_OPEN)>>),
           Word(<<")">>, level, WORD_CLOSE))

node_image(node, level, acc, with_end) ==
    The({
        The({
            IF with_end THEN append_end(node, level, image) ELSE image
            : image \in {IF simple.ok THEN simple.acc
                         ELSE generic_image(node, level, simple.acc)}})
        : simple \in {simplified_image(node, level, acc)}})

node_lines_image(node) == <<Line(0, node_image(node, 0, <<>>, TRUE))>>

(***************************************************************************)
(* folded.                                                                 *)
(***************************************************************************)
\* The character U+2026 (horizontal ellipsis), one item of a text.
PLACEHOLDER == <<"U+2026">>

\* is_root_node without its test of node.end.
is_root_node_any_end(tree) == tree.ok /\ tree.node.kind = KIND_D2S2C3

is_root_node(tree) ==
    tree.ok /\ tree.node.kind = KIND_D2S2C3 /\ tree.node.end = FOLLOWED_BY_END

\* scan_step with string.pop() in place of string.unpush() when a root node
\* is found: the saved index is restored instead of discarded.
scan_step_pop_on_root(s, c, res, ts) ==
    The({
        IF tree.c.err THEN [c |-> tree.c, result |-> res, trees |-> ts]
        ELSE IF is_root_node(tree)
        THEN [c |-> pop(tree.c), result |-> res \o PLACEHOLDER,
              trees |-> Append(ts, tree.node)]
        ELSE [c |-> consume(pop(tree.c)),
              result |-> Append(res, item(s, pop(tree.c))),
              trees |-> ts]
        : tree \in {parse_node(s, push(c))}})

\* One iteration of the `while string.has_item()` loop of folded, from the
\* cursor c with the result res and the trees ts: [c, result, trees], where
\* c.err says that the iteration raised IndexError.
scan_step(s, c, res, ts) ==
    The({
        IF tree.c.err THEN [c |-> tree.c, result |-> res, trees |-> ts]
        ELSE IF is_root_node(tree)
        THEN [c |-> unpush(tree.c), result |-> res \o PLACEHOLDER,
              trees |-> Append(ts, tree.node)]
        ELSE [c |-> consume(pop(tree.c)),
              result |-> Append(res, item(s, pop(tree.c))),
              trees |-> ts]
        : tree \in {parse_node(s, push(c))}})

\* One iteration of the `for tree in trees` loop of folded: what it adds
\* to result.
tree_block(tree) == lines_image(format_lines(node_lines_image(tree)))

RECURSIVE scan_loop(_, _, _, _)
scan_loop(s, c, res, ts) ==
    IF c.err \/ ~has_item(s, c) THEN [c |-> c, result |-> res, trees |-> ts]
    ELSE The({
        scan_loop(s, n.c, n.result, n.trees)
        : n \in {scan_step(s, c, res, ts)}})

RECURSIVE tree_blocks(_)
tree_blocks(ts) ==
    IF ts = <<>> THEN <<>> ELSE tree_block(Head(ts)) \o tree_blocks(Tail(ts))

\* folded(string): [err, out], err when it raised IndexError.
folded(string) ==
    The({
        IF scan.c.err THEN [err |-> TRUE, out |-> <<>>]
        ELSE [err |-> FALSE,
              out |-> scan.result \o <<"\n">> \o tree_blocks(scan.trees)]
        : scan \in {scan_loop(string, Cursor(0, <<>>), <<>>, <<>>)}})

(***************************************************************************)
(* The texts folded is applied to: every concatenation of at most          *)
(* MaxPieces pieces of the notation, and some whole messages.              *)
(***************************************************************************)
MaxPieces == 3

Pieces ==
    {<<"S", "2", "a">>, <<"S", "2">>, <<"a">>, <<"1">>, <<"(">>, <<")">>,
     <<";", " ">>, <<",", " ">>, <<"-", ">">>, <<" ">>}

RECURSIVE PieceTexts(_)
PieceTexts(n) ==
    IF n = 0 THEN {<<>>}
    ELSE PieceTexts(n - 1)
            \cup {t \o p : t \in PieceTexts(n - 1), p \in Pieces}

\* S2Eapp(S2Ecst(add_int_int(0)); S2Eintinf(1); S2Eintinf(2))
EX_APP_INFIX_SPEC ==
    <<"S","2","E","a","p","p","(","S","2","E","c","s","t","(","a","d","d",
      "_","i","n","t","_","i","n","t","(","0",")",")",";"," ","S","2","E",
      "i","n","t","i","n","f","(","1",")",";"," ","S","2","E","i","n","t",
      "i","n","f","(","2",")",")">>

\* S2Eapp(foo; S2Eintinf(1); S2Eintinf(2))
EX_APP_CALL_SPEC ==
    <<"S","2","E","a","p","p","(","f","o","o",";"," ","S","2","E","i","n",
      "t","i","n","f","(","1",")",";"," ","S","2","E","i","n","t","i","n",
      "f","(","2",")",")">>

\* S2Eapp(S2Ecst(add_int_int); S2Eintinf(1), S2Eintinf(2))
EX_APP_INFIX ==
    <<"S","2","E","a","p","p","(","S","2","E","c","s","t","(","a","d","d",
      "_","i","n","t","_","i","n","t",")",";"," ","S","2","E","i","n","t",
      "i","n","f","(","1",")",","," ","S","2","E","i","n","t","i","n","f",
      "(","2",")",")">>

\* S2Eapp(foo; S2Eintinf(1), S2Eintinf(2))
EX_APP_CALL ==
    <<"S","2","E","a","p","p","(","f","o","o",";"," ","S","2","E","i","n",
      "t","i","n","f","(","1",")",","," ","S","2","E","i","n","t","i","n",
      "f","(","2",")",")">>

\* S2Eapp(S2Ecst(add_int_int(0)); S2Eintinf(1), S2Eintinf(2))
EX_APP_CALL_ID ==
    <<"S","2","E","a","p","p","(","S","2","E","c","s","t","(","a","d","d",
      "_","i","n","t","_","i","n","t","(","0",")",")",";"," ","S","2","E",
      "i","n","t","i","n","f","(","1",")",","," ","S","2","E","i","n","t",
      "i","n","f","(","2",")",")">>

\* S2Eapp(foo; 1, 2)
EX_ROOT ==
    <<"S","2","E","a","p","p","(","f","o","o",";"," ","1",","," ","2",")">>

\* S2Eapp(foo; 1, 2); 
EX_NOT_ROOT ==
    <<"S","2","E","a","p","p","(","f","o","o",";"," ","1",","," ","2",")",
      ";"," ">>

\* the type S2Evar(x(1)) is not S2Eeqeq(a; b)->
EX_PROSE ==
    <<"t","h","e"," ","t","y","p","e"," ","S","2","E","v","a","r","(","x",
      "(","1",")",")"," ","i","s"," ","n","o","t"," ","S","2","E","e","q",
      "e","q","(","a",";"," ","b",")","-",">">>

\* C3NSTRprop(C3TKmain(); S2Eeqeq(S2Evar(n(7)); S2Eintinf(0)))
EX_MODE ==
    <<"C","3","N","S","T","R","p","r","o","p","(","C","3","T","K","m","a",
      "i","n","(",")",";"," ","S","2","E","e","q","e","q","(","S","2","E",
      "v","a","r","(","n","(","7",")",")",";"," ","S","2","E","i","n","t",
      "i","n","f","(","0",")",")",")">>

\* C3NSTRprop(C3TKmain; S2Eintinf(0))
EX_MODE_BARE ==
    <<"C","3","N","S","T","R","p","r","o","p","(","C","3","T","K","m","a",
      "i","n",";"," ","S","2","E","i","n","t","i","n","f","(","0",")",")">>

\* A name of WordLen letters, and terms whose one-line image is wider than
\* LINE_WIDTH.
WordLen == 40

LongName == [i \in 1..WordLen |-> "a"]

\* S2x(aa..a, aa..a, aa..a)
EX_LONG_COMMAS ==
    <<"S","2","x","(">> \o LongName \o <<","," ">> \o LongName \o <<","," ">> \o LongName \o <<")">>

\* S2x(aa..a->aa..a; aa..a)
EX_LONG_ARROW ==
    <<"S","2","x","(">> \o LongName \o <<"-",">">> \o LongName \o <<";"," ">> \o LongName \o <<")">>

\* S2Eapp(f(aa..a); S2x(aa..a), S2Eeqeq(aa..a; 1))
EX_LONG_APP ==
    <<"S","2","E","a","p","p","(","f","(">> \o LongName \o <<")",";"," ","S","2","x","(">> \o LongName
        \o <<")",","," ","S","2","E","e","q","e","q","(">> \o LongName \o <<";"," ","1",")",")">>

\* S2Eeqeq(S2Eapp(S2Ecst(add_int_int); aa..a, 1); S2y(aa..a(aa..a)))
EX_LONG_EQEQ ==
    <<"S","2","E","e","q","e","q","(","S","2","E","a","p","p","(","S","2","E","c","s","t","(","a","d","d","_","i","n","t","_","i","n","t",")",";"," ">> \o LongName \o <<","," ","1",")",";"," ","S","2","y","(">>
        \o LongName \o <<"(">> \o LongName \o <<")",")",")">>

\* S2Eapp(aa..a; aa..a, 1)
EX_LONG_CALL ==
    <<"S", "2", "E", "a", "p", "p", "(">> \o LongName \o <<";", " ">> \o LongName
        \o <<",", " ", "1", ")">>

LongExamples ==
    {EX_LONG_COMMAS, EX_LONG_ARROW, EX_LONG_APP, EX_LONG_EQEQ, EX_LONG_CALL}

\* S2a(b; ): a separator before the closing parenthesis.
EX_TRAILING_SEPARATOR == <<"S", "2", "a", "(", "b", ";", " ", ")">>

\* S2a(b; c, d->e)
EX_ALL_SEPARATORS ==
    <<"S", "2", "a", "(", "b", ";", " ", "c", ",", " ", "d", "-", ">", "e", ")">>

Examples ==
    LongExamples \cup {EX_TRAILING_SEPARATOR, EX_ALL_SEPARATORS} \cup
    {EX_APP_INFIX_SPEC, EX_APP_CALL_SPEC, EX_APP_INFIX,
     EX_APP_CALL, EX_APP_CALL_ID, EX_ROOT,
     EX_NOT_ROOT, EX_PROSE, EX_MODE,
     EX_MODE_BARE}

\* Terms of the shape C3NSTRprop(first sep second), alone and as the first
\* child of another term, and C3NSTRprop with one and with three children.
ModeFirsts ==
    {<<"C", "3", "T", "K", "m", "a", "i", "n", "(", ")">>, <<"C", "3", "T",
        "K", "m", "a", "i", "n">>, <<"C", "3", "T", "K", "m", "a", "i", "n",
        "(", "a", ")">>, <<"C", "3", "T", "K", "o", "t", "h", "e", "r", "(",
        ")">>}

ModeSeparators == {<<";", " ">>, <<",", " ">>, <<"-", ">">>}

ModeSeconds ==
    {<<"S", "2", "a">>, <<"S", "2", "E", "i", "n", "t", "i", "n", "f", "(",
        "0", ")">>, <<"S", "2", "E", "e", "q", "e", "q", "(", "S", "2", "E",
        "v", "a", "r", "(", "n", "(", "7", ")", ")", ";", " ", "S", "2",
        "E", "i", "n", "t", "i", "n", "f", "(", "0", ")", ")">>,
     <<"S", "2", "E", "a", "p", "p", "(", "S", "2", "E", "c", "s", "t", "(",
         "a", "d", "d", "_", "i", "n", "t", "_", "i", "n", "t", ")", ";",
         " ", "a", ",", " ", "1", ")">>}

ModeWrappers ==
    {<<"C", "3", "N", "S", "T", "R", "p", "r", "o", "p",
        "(">> \o first \o sep \o second \o <<")">> :
        first \in ModeFirsts, sep \in ModeSeparators, second \in ModeSeconds}
    \cup {<<"C", "3", "N", "S", "T", "R", "p", "r", "o", "p", "(", "C", "3",
        "T", "K", "m", "a", "i", "n", "(", ")", ")">>, <<"C", "3", "N", "S",
        "T", "R", "p", "r", "o", "p", "(", "C", "3", "T", "K", "m", "a",
        "i", "n", "(", ")", ";", " ", "S", "2", "a", ";", " ", "S", "2",
        "b", ")">>}

ModeTexts ==
    ModeWrappers \cup {<<"S", "2", "x", "(">> \o w \o <<";", " ", "S", "2",
        "b", ")">> : w \in ModeWrappers}

FoldInputs == PieceTexts(MaxPieces) \cup Examples \cup ModeTexts

(***************************************************************************)
(* folded(string), one loop iteration at a time.                           *)
(***************************************************************************)
NoTok == [ok |-> FALSE, token |-> <<>>, kind |-> 0]

TokIdle == /\ tok = NoTok /\ attempt = 0

FoldIdle ==
    /\ result = <<>> /\ trees = <<>> /\ tree_i = 0 /\ spans = <<>>
FmtIdle == /\ lines = <<>> /\ changed = FALSE /\ npass = 0
MainIdle == /\ stdin_line = <<>> /\ stripped = <<>> /\ output = <<>>

Init ==
    /\ text \in FoldInputs
    /\ index = 0
    /\ indexes = <<>>
    /\ result = <<>>
    /\ trees = <<>>
    /\ tree_i = 0
    /\ spans = <<>>
    /\ pc = "scan"
    /\ TokIdle /\ FmtIdle /\ MainIdle

\* One iteration of `while string.has_item()`.
Scan ==
    /\ pc = "scan"
    /\ has_item(text, Cursor(index, indexes))
    /\ \E n \in {scan_step(text, Cursor(index, indexes), result, trees)} :
           /\ index' = n.c.index
           /\ indexes' = n.c.indexes
           /\ result' = n.result
           /\ trees' = n.trees
           /\ spans' = IF Len(n.trees) > Len(trees)
                       THEN Append(spans, <<index, n.c.index>>)
                       ELSE spans
           /\ pc' = IF n.c.err THEN "raised" ELSE "scan"
    /\ UNCHANGED <<text, tree_i, tok, attempt, lines, changed, npass,
                   stdin_line, stripped, output>>

\* The loop ends: result += "\n".
ScanEnd ==
    /\ pc = "scan"
    /\ ~has_item(text, Cursor(index, indexes))
    /\ result' = result \o <<"\n">>
    /\ pc' = "render"
    /\ UNCHANGED <<text, index, indexes, trees, tree_i, spans, tok, attempt,
                   lines, changed, npass, stdin_line, stripped, output>>

\* One iteration of `for tree in trees`.
Render ==
    /\ pc = "render"
    /\ tree_i < Len(trees)
    /\ result' = result \o tree_block(trees[tree_i + 1])
    /\ tree_i' = tree_i + 1
    /\ UNCHANGED <<text, index, indexes, trees, spans, pc, tok, attempt,
                   lines, changed, npass, stdin_line, stripped, output>>

\* return result
Return ==
    /\ pc = "render"
    /\ tree_i = Len(trees)
    /\ pc' = "done"
    /\ UNCHANGED <<text, index, indexes, result, trees, tree_i, spans, tok,
                   attempt, lines, changed, npass, stdin_line, stripped, output>>

Next == Scan \/ ScanEnd \/ Render \/ Return

Spec == Init /\ [][Next]_vars

(***************************************************************************)
(* Claims about folded, checked under Spec.                                *)
(***************************************************************************)

\* C1: fold is total: whatever the input string, folded returns an output
\* string; no parse failure surfaces as an exception out of the scan.
C1_FoldTotal == pc # "raised"

\* parseTerm at position p of s, as the scanner calls it.
ParseAt(s, p) == parse_node(s, Cursor(p, <<p>>))

QualifiedRootAt(s, p) ==
    /\ ParseAt(s, p).ok
    /\ ParseAt(s, p).node.kind = KIND_D2S2C3
    /\ ParseAt(s, p).node.end = FOLLOWED_BY_END

NothingFoldable(s) == \A p \in 0..(Len(s) - 1) : ~QualifiedRootAt(s, p)

\* C2: round trip when nothing is foldable: for a text in which no position
\* starts a qualified-name term ending with terminator None, folded(text) is
\* the text followed by exactly one newline, with no rendered block, and
\* folding the same text again gives the same result.
C2_RoundTrip ==
    (NothingFoldable(text) /\ pc \in {"done", "raised"})
        => /\ pc = "done"
           /\ result = text \o <<"\n">>
           /\ folded(text) = [err |-> FALSE, out |-> result]

\* One iteration of the scanner has run: the step from a state where the
\* loop stands on an item to the next state.
ScannerStep == pc = "scan" /\ index < Len(text) /\ pc' = "scan"

FoldedHere ==
    /\ result' = result \o PLACEHOLDER
    /\ trees' = Append(trees, ParseAt(text, index).node)
    /\ index' = ParseAt(text, index).c.index

LiteralHere ==
    /\ result' = Append(result, text[index + 1])
    /\ trees' = trees
    /\ index' = index + 1

\* "U+2026 \n( 1 + 2 )\n"
OUT_INFIX_CLAIMED ==
    <<"U+2026","\n","("," ","1"," ","+"," ","2"," ",")","\n">>

\* "U+2026 \nfoo( 1 , 2 )\n"
OUT_CALL_CLAIMED ==
    <<"U+2026","\n","f","o","o","("," ","1"," ",","," ","2"," ",")","\n">>

\* "U+2026 \n(1 + 2)\n"
OUT_INFIX ==
    <<"U+2026","\n","(","1"," ","+"," ","2",")","\n">>

\* "U+2026 \nfoo(1, 2)\n"
OUT_CALL ==
    <<"U+2026","\n","f","o","o","(","1",","," ","2",")","\n">>

\* "U+2026 \nS2Ecst(add_int_int)(1, 2)\n"
OUT_CALL_ID ==
    <<"U+2026","\n","S","2","E","c","s","t","(","a","d","d","_","i","n","t",
      "_","i","n","t",")","(","1",","," ","2",")","\n">>

\* "U+2026 \nS2Eapp(S2Ecst(add_int_int); 1; 2)\n"
OUT_INFIX_SPEC ==
    <<"U+2026","\n","S","2","E","a","p","p","(","S","2","E","c","s","t","(",
      "a","d","d","_","i","n","t","_","i","n","t",")",";"," ","1",";"," ",
      "2",")","\n">>

\* "U+2026 \nS2Eapp(foo; 1; 2)\n"
OUT_CALL_SPEC ==
    <<"U+2026","\n","S","2","E","a","p","p","(","f","o","o",";"," ","1",";",
      " ","2",")","\n">>

\* C3: root-candidate gating: at each scan position the scanner emits a
\* placeholder and enqueues a term iff parseTerm at that position succeeds
\* with kind QualifiedName and terminator None; otherwise, and so for a
\* qualified term followed by "; ", ", " or "->", the first character is
\* emitted verbatim and the cursor advances by exactly one character.
\* "S2Eapp(foo; 1, 2)" alone is folded, and "S2Eapp(foo; 1, 2); " is output
\* entirely as literal text.
C3_RootGating ==
    /\ [][ScannerStep =>
            /\ FoldedHere <=> QualifiedRootAt(text, index)
            /\ ~QualifiedRootAt(text, index) => LiteralHere]_vars
    /\ []((pc = "done" /\ text = EX_ROOT) => result = OUT_CALL)
    /\ []((pc = "done" /\ text = EX_NOT_ROOT)
            => result = EX_NOT_ROOT \o <<"\n">>)

\* A qualified term ended by a separator stood at position 0 and the scanner
\* has passed it: its first character is in the result, nothing is folded.
C3_Witness ==
    /\ pc = "scan" /\ index = 1 /\ Len(text) > 0
    /\ ParseAt(text, 0).ok
    /\ ParseAt(text, 0).node.kind = KIND_D2S2C3
    /\ ParseAt(text, 0).node.end # FOLLOWED_BY_END
    /\ result = <<text[1]>> /\ trees = <<>>

\* The text of s from position p up to position upto with each span of sp
\* replaced by one placeholder.
RECURSIVE Spliced(_, _, _, _)
Spliced(s, sp, p, upto) ==
    IF p >= upto THEN <<>>
    ELSE IF \E i \in 1..Len(sp) : sp[i][1] = p
    THEN LET i == CHOOSE k \in 1..Len(sp) : sp[k][1] = p
         IN  PLACEHOLDER \o Spliced(s, sp, sp[i][2], upto)
    ELSE <<s[p + 1]>> \o Spliced(s, sp, p + 1, upto)

\* The rendering blocks appended for the first n trees.
RECURSIVE Blocks(_)
Blocks(n) ==
    IF n = 0 THEN <<>>
    ELSE Blocks(n - 1)
            \o lines_image(format_lines(node_lines_image(trees[n])))

SpansInOrder ==
    \A i \in 1..Len(spans) :
        /\ 0 <= spans[i][1] /\ spans[i][1] < spans[i][2]
        /\ spans[i][2] <= index
        /\ i > 1 => spans[i - 1][2] <= spans[i][1]
        /\ ParseAt(text, spans[i][1]).ok
        /\ ParseAt(text, spans[i][1]).c.index = spans[i][2]
        /\ ParseAt(text, spans[i][1]).node = trees[i]

\* C4: fold output structure: the text produced before the appended blocks
\* is the input with each extracted root term's span of characters replaced
\* by one placeholder and every other character copied in order; the spans
\* do not overlap and are in increasing position, the cursor never moves
\* backwards, and one block is appended per placeholder, in discovery
\* order.
C4_FoldStructure ==
    /\ []((pc # "raised") =>
            /\ Len(trees) = Len(spans)
            /\ SpansInOrder
            /\ pc = "scan" => result = Spliced(text, spans, 0, index)
            /\ pc \in {"render", "done"} =>
                 /\ index = Len(text)
                 /\ result = Spliced(text, spans, 0, Len(text)) \o <<"\n">>
                                \o Blocks(tree_i)
            /\ pc = "done" => tree_i = Len(spans))
    /\ [][ScannerStep => index' > index]_vars

\* Two terms were extracted from a text that also holds literal characters,
\* and both blocks are appended.
C4_Witness ==
    /\ pc = "done" /\ Len(spans) >= 2 /\ tree_i = Len(spans)
    /\ Len(result) > Len(spans) + 1 + tree_i

\* C5: BinaryApp rendering of the examples: S2Eapp(callee; arg1; arg2),
\* written as in the examples, renders in infix form when the callee
\* renders to a single symbol-leading word and in call form otherwise:
\* `S2Eapp(S2Ecst(add_int_int(0)); S2Eintinf(1); S2Eintinf(2))` renders to
\* "( 1 + 2 )" and `S2Eapp(foo; S2Eintinf(1); S2Eintinf(2))` to
\* "foo( 1 , 2 )".
C5_BinaryAppExamples_Original ==
    /\ (pc = "done" /\ text = EX_APP_INFIX_SPEC) => result = OUT_INFIX_CLAIMED
    /\ (pc = "done" /\ text = EX_APP_CALL_SPEC) => result = OUT_CALL_CLAIMED

\* C5, amended: the BinaryApp rule asks for the first child to end with
\* "; " and the second with ", ", and a line has a space only around an
\* operator and after a separator.  S2Eapp(S2Ecst(add_int_int);
\* S2Eintinf(1), S2Eintinf(2)) renders to "(1 + 2)",
\* S2Eapp(foo; S2Eintinf(1), S2Eintinf(2)) to "foo(1, 2)", and with the
\* callee S2Ecst(add_int_int(0)), which renders to four words, to
\* "S2Ecst(add_int_int)(1, 2)"; the two examples as written, with "; "
\* between the arguments, render generically to
\* "S2Eapp(S2Ecst(add_int_int); 1; 2)" and "S2Eapp(foo; 1; 2)".
C5_BinaryAppExamples ==
    pc = "done" =>
        /\ text = EX_APP_INFIX => result = OUT_INFIX
        /\ text = EX_APP_CALL => result = OUT_CALL
        /\ text = EX_APP_CALL_ID => result = OUT_CALL_ID
        /\ text = EX_APP_INFIX_SPEC => result = OUT_INFIX_SPEC
        /\ text = EX_APP_CALL_SPEC => result = OUT_CALL_SPEC

C5_Witness == pc = "done" /\ text = EX_APP_INFIX /\ result = OUT_INFIX

(***************************************************************************)
(* parse_token, one method of its `or` chain at a time, called as the      *)
(* scanner calls it: at a position of the text, with that position saved   *)
(* on the stack by folded.                                                 *)
(***************************************************************************)
MaxTokPieces == 3

TokPieces == {"S", "2", "a", "1", "$", "-", "+", "(", "_"}

RECURSIVE TokTexts(_)
TokTexts(n) ==
    IF n = 0 THEN {<<>>}
    ELSE TokTexts(n - 1)
            \cup {Append(t, p) : t \in TokTexts(n - 1), p \in TokPieces}

TokExamples ==
    {<<"D","2","f","o","o">>, <<"f","o","o","$","1","2">>, <<"f","o","o">>,
     <<"C","3","x","(">>, <<"x","$","-","1","2">>, <<"-","1","-">>,
     <<"S","2","2","a">>, <<"a","'","_","1","$">>}

TokInputs == TokTexts(MaxTokPieces) \cup TokExamples

InitTok ==
    /\ text \in TokInputs
    /\ index \in 0..(Len(text) - 1)
    /\ indexes = <<index>>
    /\ pc = "token"
    /\ tok = NoTok
    /\ attempt = 1
    /\ FoldIdle /\ FmtIdle /\ MainIdle

\* try_token(method, kind) for the next method of the chain.
TryToken ==
    /\ pc = "token"
    /\ \E r \in {try_token(text, Cursor(index, indexes), attempt)} :
           /\ index' = r.c.index
           /\ indexes' = r.c.indexes
           /\ tok' = IF r.ok
                     THEN [ok |-> TRUE, token |-> r.tok, kind |-> r.kind]
                     ELSE tok
           /\ attempt' = IF r.ok \/ attempt = Len(TOKEN_KINDS)
                         THEN attempt ELSE attempt + 1
           /\ pc' = IF r.ok \/ attempt = Len(TOKEN_KINDS)
                    THEN "token_done" ELSE "token"
    /\ UNCHANGED <<text, result, trees, tree_i, spans, lines, changed, npass,
                   stdin_line, stripped, output>>

NextTok == TryToken

SpecTok == InitTok /\ [][NextTok]_vars

(***************************************************************************)
(* Claims about the tokenizer, checked under SpecTok.  The position at     *)
(* which parse_token was called is indexes[1].                             *)
(***************************************************************************)

\* The length of the longest run of characters of Class at position p.
RunLen(s, p, Class) ==
    IF p >= Len(s) THEN 0
    ELSE CHOOSE n \in 0..(Len(s) - p) :
            /\ \A k \in 1..n : s[p + k] \in Class
            /\ p + n = Len(s) \/ s[p + n + 1] \notin Class

\* The length of the longest match of each kind's pattern at position p,
\* 0 when the pattern does not match there.
QualifiedNameLen(s, p) ==
    IF /\ Slice(s, p, p + 2) \in {<<"D", "2">>, <<"S", "2">>, <<"C", "3">>}
       /\ RunLen(s, p + 2, Alpha) > 0
    THEN 2 + RunLen(s, p + 2, Alpha)
    ELSE 0

PlainNameLen(s, p) ==
    IF p < Len(s) /\ s[p + 1] \in Alpha \cup {"_"}
    THEN 1 + RunLen(s, p + 1, Alpha \cup Numeric \cup {"_", "'"})
    ELSE 0

NumericLen(s, p) ==
    LET sign == IF p < Len(s) /\ s[p + 1] = "-" THEN 1 ELSE 0
    IN  IF RunLen(s, p + sign, Numeric) > 0
        THEN sign + RunLen(s, p + sign, Numeric)
        ELSE 0

NameWithIdLen(s, p) ==
    LET n == PlainNameLen(s, p)
    IN  IF /\ n > 0 /\ p + n < Len(s) /\ s[p + n + 1] = "$"
           /\ NumericLen(s, p + n + 1) > 0
        THEN n + 1 + NumericLen(s, p + n + 1)
        ELSE 0

SymbolLen(s, p) ==
    RunLen(s, p, {"[","]","<",">",".","-","+","/","%","=","~","*","&","|"})

\* The token of the first kind, in the order QualifiedName, NameWithId,
\* PlainName, Numeric, Symbol, whose pattern matches at position p.
FirstMatch(s, p) ==
    LET Found(n, kind) ==
            [ok |-> TRUE, token |-> Slice(s, p, p + n), kind |-> kind]
    IN  IF QualifiedNameLen(s, p) > 0
        THEN Found(QualifiedNameLen(s, p), KIND_D2S2C3)
        ELSE IF NameWithIdLen(s, p) > 0
        THEN Found(NameWithIdLen(s, p), KIND_NAME_ID)
        ELSE IF PlainNameLen(s, p) > 0
        THEN Found(PlainNameLen(s, p), KIND_NAME)
        ELSE IF NumericLen(s, p) > 0
        THEN Found(NumericLen(s, p), KIND_NUMERIC)
        ELSE IF SymbolLen(s, p) > 0
        THEN Found(SymbolLen(s, p), KIND_SYMBOL)
        ELSE NoTok

\* C6: tokenizer priority: parse_token returns the first kind, in the order
\* QualifiedName, NameWithId, PlainName, Numeric, Symbol, whose pattern
\* matches at the starting position, with the longest run of that kind
\* beginning there as the token, and the cursor advanced by exactly the
\* token's length.
C6_TokenizerPriority ==
    pc = "token_done" =>
        /\ tok = FirstMatch(text, indexes[1])
        /\ tok.ok => index = indexes[1] + Len(tok.token)

\* C7: tokenizer failure backs out entirely: whenever an attempt at one
\* token kind reports no match, the cursor is where it was before that
\* attempt, so the next kind is tried on the same text and a failed
\* parse_token consumes nothing.
C7_TokenizerBacksOut ==
    /\ pc = "token" => index = indexes[1]
    /\ (pc = "token_done" /\ ~tok.ok) => index = indexes[1]

(***************************************************************************)
(* format_lines, one iteration of `while changed` at a time, applied to    *)
(* one line at indent 0, as folded applies it: the line of a long term,    *)
(* or any line of at most MaxWords words.                                  *)
(***************************************************************************)
MaxWords == 4

FmtWords ==
    {Word(LongName, 2, WORD_TOKEN), Word(<<"(">>, 0, WORD_OPEN)} \cup
    UNION {{Word(LongName, level, WORD_TOKEN),
            Word(<<",">>, level, WORD_SEPARATOR),
            Word(<<"+">>, level, WORD_OPERATOR)} : level \in {0, 1}}

RECURSIVE WordSeqs(_)
WordSeqs(n) ==
    IF n = 0 THEN {<<>>}
    ELSE WordSeqs(n - 1)
            \cup {Append(ws, w) : ws \in WordSeqs(n - 1), w \in FmtWords}

FmtInputs ==
    {node_lines_image(parse_node(t, Cursor(0, <<0>>)).node) :
        t \in LongExamples}
    \cup {<<Line(0, ws)>> : ws \in WordSeqs(MaxWords) \ {<<>>}}

InitFmt ==
    /\ lines \in FmtInputs
    /\ changed = TRUE
    /\ npass = 0
    /\ pc = "format"
    /\ text = <<>> /\ index = 0 /\ indexes = <<>>
    /\ FoldIdle /\ TokIdle /\ MainIdle

\* One iteration of `while changed`.
FormatPass ==
    /\ pc = "format"
    /\ changed
    /\ \E p \in {format_pass(lines)} :
           /\ lines' = p.result
           /\ changed' = p.changed
    /\ npass' = npass + 1
    /\ UNCHANGED <<text, index, indexes, result, trees, tree_i, spans, pc,
                   tok, attempt, stdin_line, stripped, output>>

\* return result
FormatReturn ==
    /\ pc = "format"
    /\ ~changed
    /\ pc' = "formatted"
    /\ UNCHANGED <<text, index, indexes, result, trees, tree_i, spans, tok,
                   attempt, lines, changed, npass, stdin_line, stripped,
                   output>>

NextFmt == FormatPass \/ FormatReturn

\* format_lines is a sequential loop: it takes its next step whenever it
\* has one.
SpecFmt == InitFmt /\ [][NextFmt]_vars /\ WF_vars(NextFmt)

(***************************************************************************)
(* Claims about the formatter, checked under SpecFmt.                      *)
(***************************************************************************)

RECURSIVE WordsOf(_)
WordsOf(ls) ==
    IF ls = <<>> THEN <<>> ELSE Head(ls).words \o WordsOf(Tail(ls))

Fits(l) == Len(line_image(l)) <= LINE_WIDTH

Unsplittable(l) ==
    /\ Len(splitted_at_separator(l)) <= 1
    /\ Len(splitted_at_operator(l)) <= 1
    /\ Len(indented_on_next_level(l)) <= 1

\* C8: formatter fixed point: format_lines terminates: each rewriting pass
\* strictly increases the number of lines, which is bounded by the total
\* number of words; and in the result every line either renders to at most
\* LINE_WIDTH (78) characters or is one that none of the three strategies
\* splits into more than one line.
C8_FormatterFixedPoint ==
    /\ [][(pc = "format" /\ changed' /\ npass' = npass + 1)
            => Len(lines') > Len(lines)]_vars
    /\ [](pc \in {"format", "formatted"}
            => /\ Len(lines) <= Len(WordsOf(lines))
               /\ npass <= Len(lines))
    /\ [](pc = "formatted"
            => \A i \in 1..Len(lines) :
                  Fits(lines[i]) \/ Unsplittable(lines[i]))
    /\ (pc = "format") ~> (pc = "formatted")

\* format_lines returned after three passes or more, and a line that is
\* still too wide is left because no strategy splits it.
C8_Witness ==
    /\ pc = "formatted" /\ npass >= 3
    /\ \E i \in 1..Len(lines) : ~Fits(lines[i]) /\ Unsplittable(lines[i])

\* C9: formatter content preservation: after any number of passes, the
\* words of the lines, concatenated in order, are the word sequence of the
\* input line (no word dropped, duplicated, reordered or altered), and no
\* strategy produces a line with zero words from a non-empty line.
C9_ContentPreserved ==
    /\ [][pc = "format" => WordsOf(lines') = WordsOf(lines)]_vars
    /\ [](pc \in {"format", "formatted"}
            => \A i \in 1..Len(lines) :
                 /\ Len(lines[i].words) > 0
                 /\ \A sub \in {splitted_at_separator(lines[i]),
                                splitted_at_operator(lines[i]),
                                indented_on_next_level(lines[i])} :
                        /\ WordsOf(sub) = lines[i].words
                        /\ \A j \in 1..Len(sub) : Len(sub[j].words) > 0)

\* Two passes have split the input line into three lines or more.
C9_Witness == pc = "format" /\ npass >= 2 /\ changed /\ Len(lines) >= 3

(***************************************************************************)
(* Located diagnostics: the tags of a message with location, and what      *)
(* main does with one line of standard input.                              *)
(***************************************************************************)
LOC_WITH_COLUMN == TRUE
REL_PATH == TRUE

END_OF_PATH == <<":", " ">>
LINE_TAG == <<"(", "l", "i", "n", "e", "=">>
OFFS_TAG == <<",", " ", "o", "f", "f", "s", "=">>
END_OF_BEGIN == <<")", " ", "-", "-", " ">>
END_OF_END == <<")", ":", " ">>
END_OF_MSG_LEVEL == <<":", " ">>

\* The tags in the order is_message_with_location and
\* parse_message_with_location look for them.
TAGS ==
    <<END_OF_PATH, LINE_TAG, OFFS_TAG, END_OF_BEGIN, LINE_TAG, OFFS_TAG,
      END_OF_END, END_OF_MSG_LEVEL>>

\* str.find(tag, start): the lowest index from start on where tag occurs,
\* or -1.
find(line, tag, start) ==
    The({
        IF hits = {} THEN -1 ELSE CHOOSE i \in hits : \A h \in hits : i <= h
        : hits \in {{i \in start..(Len(line) - Len(tag)) :
                        SubSeq(line, i + 1, i + Len(tag)) = tag}}})

find_tag(line, tag, start) ==
    The({[i |-> i, j |-> i + Len(tag)] : i \in {find(line, tag, start)}})

\* The (i, j) of the tags from the n-th on, looked for from index j on,
\* up to and including the first tag that is not found.
RECURSIVE find_tags(_, _, _)
find_tags(line, n, j) ==
    IF n > Len(TAGS) THEN <<>>
    ELSE The({
        IF t.i = -1 THEN <<t>> ELSE <<t>> \o find_tags(line, n + 1, t.j)
        : t \in {find_tag(line, TAGS[n], j)}})

is_message_with_location(line) ==
    The({Len(ts) = Len(TAGS) /\ ts[Len(TAGS)].i # -1
         : ts \in {find_tags(line, 1, 0)}})

message_level_number(message_level) ==
    IF message_level = <<"e", "r", "r", "o", "r", "(", "3", ")">> THEN 3
    ELSE IF message_level \in {<<"e", "r", "r", "o", "r", "(", "m", "a",
        "c", ")">>, <<"e", "r", "r", "o", "r", "(", "2", ")">>} THEN 2
    ELSE IF message_level = <<"e", "r", "r", "o", "r", "(", "p", "a", "r",
        "s", "i", "n", "g", ")">> THEN 1
    ELSE 0

\* str.strip(), for the ASCII whitespace a string of the model can hold.
Whitespace == {" ", "\t", "\n", "\r", "\f"}

RECURSIVE lstrip(_)
lstrip(s) ==
    IF s # <<>> /\ Head(s) \in Whitespace THEN lstrip(Tail(s)) ELSE s

RECURSIVE rstrip(_)
rstrip(s) ==
    IF s # <<>> /\ s[Len(s)] \in Whitespace
    THEN rstrip(SubSeq(s, 1, Len(s) - 1))
    ELSE s

strip(s) == rstrip(lstrip(s))

\* int(s): [ok, value]; ok is FALSE where int raises ValueError.  The
\* literal is an optional sign and decimal digits, single underscores
\* allowed between digits, whitespace allowed around it.
DecimalDigits == <<"0", "1", "2", "3", "4", "5", "6", "7", "8", "9">>

DigitValue(d) == CHOOSE v \in 0..9 : DecimalDigits[v + 1] = d

RECURSIVE digits_value(_, _)
digits_value(s, acc) ==
    IF s = <<>> THEN acc
    ELSE IF Head(s) = "_" THEN digits_value(Tail(s), acc)
    ELSE digits_value(Tail(s), 10 * acc + DigitValue(Head(s)))

int(s) ==
    LET t == strip(s)
        signed == t # <<>> /\ Head(t) \in {"+", "-"}
        body == IF signed THEN Tail(t) ELSE t
        ok == /\ body # <<>>
              /\ \A i \in 1..Len(body) : body[i] \in Numeric \cup {"_"}
              /\ body[1] # "_" /\ body[Len(body)] # "_"
              /\ \A i \in 1..(Len(body) - 1) :
                    ~(body[i] = "_" /\ body[i + 1] = "_")
    IN  IF ~ok THEN [ok |-> FALSE, value |-> 0]
        ELSE [ok |-> TRUE,
              value |-> IF signed /\ Head(t) = "-"
                        THEN 0 - digits_value(body, 0)
                        ELSE digits_value(body, 0)]

\* "%i" % n
RECURSIVE nat_image(_)
nat_image(n) ==
    IF n < 10 THEN <<DecimalDigits[n + 1]>>
    ELSE Append(nat_image(n \div 10), DecimalDigits[(n % 10) + 1])

int_image(n) == IF n < 0 THEN <<"-">> \o nat_image(0 - n) ELSE nat_image(n)

\* os.path.relpath(path) for a path without a directory separator:
\* ValueError on the empty path, else the path itself.
relpath(path) ==
    IF path = <<>> THEN [ok |-> FALSE, path |-> path]
    ELSE [ok |-> TRUE, path |-> path]

\* parse_message_with_location(line), for a line is_message_with_location
\* accepts: [err, path, line, col, level, text]; err where relpath or int
\* raises ValueError.
parse_message_with_location(line) ==
    The({
        The({
            [err |-> ~(path.ok /\ start_line.ok /\ start_offs.ok),
             path |-> path.path,
             line |-> start_line.value,
             col |-> start_offs.value,
             level |-> message_level_number(Slice(line, ts[7].j, ts[8].i)),
             text |-> Slice(line, ts[8].j, Len(line))]
            : path \in {IF REL_PATH
                        THEN relpath(Slice(line, 0, ts[1].i))
                        ELSE [ok |-> TRUE, path |-> Slice(line, 0, ts[1].i)]},
              start_line \in {int(Slice(line, ts[2].j, ts[3].i))},
              start_offs \in {int(Slice(line, ts[3].j, ts[4].i))}})
        : ts \in {find_tags(line, 1, 0)}})

(***************************************************************************)
(* main, one line of standard input per behaviour.  The line is a body     *)
(* between at most MaxPad whitespace characters on each side, with its     *)
(* line end; the body is a located diagnostic, a located diagnostic with   *)
(* one tag missing, or other text.                                         *)
(***************************************************************************)
MaxPad == 1

RECURSIVE Pads(_)
Pads(n) ==
    IF n = 0 THEN {<<>>}
    ELSE Pads(n - 1) \cup {Append(p, c) : p \in Pads(n - 1), c \in {" ",
        "\t"}}

\* The fields around the eight tags, and the line they make when tag
\* `without` (0 for none) is left out.
MessageFields ==
    {<<path, <<"1", "2", "3", "4">>, start_line, start_offs, <<"1", "2",
        "5", "0">>, <<"1", "0">>, <<"2", "1">>, level, t>> :
        path \in {<<"f", ".", "d", "a", "t", "s">>, <<>>},
        start_line \in {<<"1", "0">>, <<"0", "0", "7">>, <<"x">>},
        start_offs \in {<<"5">>, <<" ", "-", "1", "_", "0">>},
        level \in {<<"e", "r", "r", "o", "r", "(", "3", ")">>, <<"w", "a",
            "r", "n", "i", "n", "g", "(", "2", ")">>},
        t \in {<<"t", "h", "e", " ", "s", "t", "a", "t", "i", "c", " ", "e",
            "x", "p", "r", "e", "s", "s", "i", "o", "n", " ", "[", "S", "2",
            "E", "a", "p", "p", "(", "S", "2", "E", "c", "s", "t", "(", "a",
            "d", "d", "_", "i", "n", "t", "_", "i", "n", "t", ")", ";", " ",
            "S", "2", "E", "i", "n", "t", "i", "n", "f", "(", "1", ")", ",",
            " ", "S", "2", "E", "i", "n", "t", "i", "n", "f", "(", "2", ")",
            ")", "]", " ", "i", "s", " ", "n", "e", "e", "d", "e", "d">>,
               <<"u", "n", "s", "o", "l", "v", "e", "d", " ", "c", "o", "n",
                   "s", "t", "r", "a", "i", "n", "t", ":", " ", "C", "3",
                   "N", "S", "T", "R", "p", "r", "o", "p", "(", "C", "3",
                   "T", "K", "m", "a", "i", "n", "(", ")", ";", " ", "S",
                   "2", "E", "e", "q", "e", "q", "(", "S", "2", "E", "v",
                   "a", "r", "(", "n", ")", ";", " ", "S", "2", "E", "i",
                   "n", "t", "i", "n", "f", "(", "0", ")", ")", ")">>,
               <<"S", "2", "a", "(">>,
               <<>>}}

RECURSIVE MessageLine(_, _, _)
MessageLine(fields, without, n) ==
    IF n > Len(TAGS) THEN fields[n]
    ELSE fields[n] \o (IF n = without THEN <<>> ELSE TAGS[n])
            \o MessageLine(fields, without, n + 1)

OtherTexts ==
    {<<"h", "e", "l", "l", "o">>, <<"p", "a", "t", "s", "o", "p", "t", ":",
        " ", "t", "h", "e", "r", "e", " ", "a", "r", "e", " ", "2", " ",
        "e", "r", "r", "o", "r", "s">>, <<"a", ":", " ", "b", "(", "l", "i",
        "n", "e", "=", "1">>, <<"S", "2", "a", "(", "1", ";", " ", "2", ")">>,
     <<>>}

MainBodies ==
    {MessageLine(f, without, 1) :
        f \in MessageFields, without \in 0..Len(TAGS)}
    \cup OtherTexts

MainInputs ==
    {before \o body \o after \o <<"\n">> :
        before \in Pads(MaxPad), body \in MainBodies, after \in Pads(MaxPad)}

InitMain ==
    /\ stdin_line \in MainInputs
    /\ stripped = <<>>
    /\ output = <<>>
    /\ pc = "read"
    /\ text = <<>> /\ index = 0 /\ indexes = <<>>
    /\ FoldIdle /\ TokIdle /\ FmtIdle

\* One iteration of `for line in sys.stdin` on a message with location.
MainMessage ==
    /\ pc = "read"
    /\ \E l \in {strip(stdin_line)} :
        /\ is_message_with_location(l)
        /\ stripped' = l
        /\ \E message \in {parse_message_with_location(l)} :
            IF message.err
            THEN pc' = "raised" /\ output' = output
            ELSE \E t \in {folded(message.text)} :
                    IF t.err
                    THEN pc' = "raised" /\ output' = output
                    ELSE /\ pc' = "printed"
                         /\ output' =
                              IF LOC_WITH_COLUMN
                              THEN message.path \o <<":">>
                                    \o int_image(message.line) \o <<":">>
                                    \o int_image(message.col) \o <<":", " ">>
                                    \o t.out \o <<"\n">>
                              ELSE message.path \o <<":">>
                                    \o int_image(message.line) \o <<":", " ">>
                                    \o t.out \o <<"\n">>
    /\ UNCHANGED <<text, index, indexes, result, trees, tree_i, spans, tok,
                   attempt, lines, changed, npass, stdin_line>>

\* One iteration of `for line in sys.stdin` on any other line.
MainOther ==
    /\ pc = "read"
    /\ \E l \in {strip(stdin_line)} :
        /\ ~is_message_with_location(l)
        /\ stripped' = l
        /\ output' = l \o <<"\n">>
    /\ pc' = "printed"
    /\ UNCHANGED <<text, index, indexes, result, trees, tree_i, spans, tok,
                   attempt, lines, changed, npass, stdin_line>>

NextMain == MainMessage \/ MainOther

SpecMain == InitMain /\ [][NextMain]_vars

(***************************************************************************)
(* Claims about main, checked under SpecMain.                              *)
(***************************************************************************)

\* The line as read, without its line end.
LineRead == SubSeq(stdin_line, 1, Len(stdin_line) - 1)

\* C10: pass-through of unmatched lines: every input line that does not
\* match the located-diagnostic format (the eight delimiters found in
\* order) is written to the output unchanged, character for character,
\* including any leading or trailing whitespace inside the line.
C10_PassThrough ==
    (pc = "printed" /\ ~is_message_with_location(LineRead))
        => output = stdin_line

(***************************************************************************)
(* Claims about the stack of saved indexes, checked under Spec.            *)
(***************************************************************************)

\* A parser that returned r from the cursor c left the stack as it found
\* it, popped no empty stack, and on failure left the index where it was.
MarkBalanced(r, c) ==
    /\ ~r.c.err
    /\ r.c.indexes = c.indexes
    /\ ~r.ok => r.c.index = c.index

\* C11: mark-stack pairing: during a fold of any input, every index pushed
\* on the stack (by folded, parse_name_id and parse_numeric) is matched by
\* exactly one unpush (on success) or pop (on failure); so the stack is
\* empty at the start of every iteration of the scan and when the scan
\* ends, an empty stack is never popped, and a pop puts the index back to
\* the value it had at the matching push.
C11_MarkStackPairing ==
    /\ indexes = <<>>
    /\ \A p \in 0..Len(text) :
         \A c \in {Cursor(p, <<>>), Cursor(p, <<index>>)} :
            /\ MarkBalanced(parse_numeric(text, c), c)
            /\ MarkBalanced(parse_name_id(text, c), c)

\* The same, for the folds that do not raise.
C11_PairingUnlessRaised == pc # "raised" => C11_MarkStackPairing

(***************************************************************************)
(* Claims about the simplified images, checked under Spec.                 *)
(***************************************************************************)

\* The children of a node, none for a node without a list.
Children(node) == IF node.nodes_none THEN <<>> ELSE node.nodes

\* A node and the nodes below it.
RECURSIVE Subterms(_)
Subterms(node) ==
    {node} \cup
    UNION {Subterms(Children(node)[i]) : i \in 1..Len(Children(node))}

FoldedTerms == UNION {Subterms(trees[i]) : i \in 1..Len(trees)}

\* C3NSTRprop with two children, the first of them C3TKmain.
IsModeWrapper(node) ==
    /\ node.token = TOKEN_C3NSTRprop
    /\ ~node.nodes_none /\ Len(node.nodes) = 2
    /\ node.nodes[1].token = TOKEN_C3TKmain

\* The words of the node, its own end left out, are the words of its
\* second child, at any level and after any words.
RendersAsSecondChild(node) ==
    \A level \in {0, 1} :
        \A acc \in {<<>>, <<Word(<<"(">>, 0, WORD_OPEN)>>} :
            node_image(node, level, acc, FALSE)
                = node_image(node.nodes[2], level, acc, TRUE)

\* C12, as stated: ModeWrapper rule: a term with token C3NSTRprop and
\* exactly two children whose first child is the token C3TKmain with no
\* children (a bare token, children absent) renders exactly as the render
\* of its second child, with no word for the wrapper or the first child.
C12_ModeWrapper_Original ==
    \A node \in FoldedTerms :
        (IsModeWrapper(node) /\ node.nodes[1].nodes_none)
            => RendersAsSecondChild(node)

\* C12, amended: ModeWrapper rule: a term with token C3NSTRprop and exactly
\* two children whose first child is the token C3TKmain followed by an
\* empty parenthesised list (children present and empty) renders exactly
\* as the render of its second child, with no word for the wrapper or the
\* first child; with a bare C3TKmain the term is not a ModeWrapper and
\* keeps a word for its token.
C12_ModeWrapper ==
    \A node \in FoldedTerms :
        IsModeWrapper(node) =>
            IF ~node.nodes[1].nodes_none /\ node.nodes[1].nodes = <<>>
            THEN RendersAsSecondChild(node)
            ELSE node_image(node, 0, <<>>, FALSE)[1]
                    = Word(TOKEN_C3NSTRprop, 0, WORD_TOKEN)

\* A fold has returned whose trees hold, below another term, a wrapper
\* with C3TKmain() as its first child.
C12_Witness ==
    /\ pc = "done"
    /\ \E node \in FoldedTerms :
            /\ IsModeWrapper(node)
            /\ ~node.nodes[1].nodes_none /\ node.nodes[1].nodes = <<>>
            /\ node \notin {trees[i] : i \in 1..Len(trees)}

(***************************************************************************)
(* Claims about the indent of the formatter's lines, checked under         *)
(* SpecFmt.                                                                *)
(***************************************************************************)

\* The words of the long terms, as node_lines_image puts them in one line.
TermWords ==
    {node_image(parse_node(t, Cursor(0, <<0>>)).node, 0, <<>>, TRUE) :
        t \in LongExamples}

\* The lines of `sub` have the indent of `line`, or one more and then only
\* words deeper than the first word of `line`.
IndentRaisedForDeeperOnly(line, sub) ==
    \A j \in 1..Len(sub) :
        \/ sub[j].indent = line.indent
        \/ /\ sub[j].indent = line.indent + 1
           /\ \A k \in 1..Len(sub[j].words) :
                sub[j].words[k].level > line.words[1].level

\* C13: indent is raised only for nested sub-levels: splitting at
\* separators or at operators never changes indent, and whenever the
\* formatter emits a line with indent one greater than the line it was
\* split from, every word of that new line has a level strictly greater
\* than the level of the original line's first word; for every line
\* reachable from a rendered term, those included whose first word comes
\* from the callee of an S2Eapp, at level+1 before the "(" at level.
C13_IndentOnlyForNested ==
    (pc = "format" /\ WordsOf(lines) \in TermWords) =>
        \A i \in 1..Len(lines) :
            /\ \A sub \in {splitted_at_separator(lines[i]),
                           splitted_at_operator(lines[i])} :
                    \A j \in 1..Len(sub) : sub[j].indent = lines[i].indent
            /\ IndentRaisedForDeeperOnly(lines[i], format_line(lines[i]))

\* The same for the lines whose first word is nowhere deeper than a later
\* word, whatever their words.
C13_UnlessFirstWordDeeper ==
    pc = "format" =>
        \A i \in 1..Len(lines) :
            /\ \A sub \in {splitted_at_separator(lines[i]),
                           splitted_at_operator(lines[i])} :
                    \A j \in 1..Len(sub) : sub[j].indent = lines[i].indent
            /\ (\A k \in 1..Len(lines[i].words) :
                    lines[i].words[k].level >= lines[i].words[1].level)
                => IndentRaisedForDeeperOnly(lines[i], format_line(lines[i]))

(***************************************************************************)
(* Claims about the nodes parse_node returns, checked under Spec.          *)
(***************************************************************************)

\* The nodes parse_node returns at the positions of the text, and the
\* nodes below them.
ParsedTerms ==
    UNION {Subterms(ParseAt(text, p).node) :
            p \in {q \in 0..(Len(text) - 1) : ParseAt(text, q).ok}}

\* The last child is followed by the end of its list, every earlier one by
\* "; ", ", " or "->".
TerminatorsWellFormed(node) ==
    \A i \in 1..Len(Children(node)) :
        IF i = Len(Children(node))
        THEN Children(node)[i].end = FOLLOWED_BY_END
        ELSE Children(node)[i].end \in
                {FOLLOWED_BY_SEMI_COLON, FOLLOWED_BY_COMMA, FOLLOWED_BY_ARROW}

\* C14: children-list terminator invariant: in every node the parser
\* produces, if the list of children is present and non-empty then exactly
\* its last child has the end FOLLOWED_BY_END and every earlier child has
\* FOLLOWED_BY_SEMI_COLON, FOLLOWED_BY_COMMA or FOLLOWED_BY_ARROW; so the
\* third child of a three-child S2Eapp and the second child of a two-child
\* S2Eeqeq or C3NSTRprop always have the end FOLLOWED_BY_END.
C14_ChildrenTerminators ==
    \A node \in ParsedTerms :
        /\ TerminatorsWellFormed(node)
        /\ (node.token = TOKEN_S2Eapp /\ Len(Children(node)) = 3)
            => node.nodes[3].end = FOLLOWED_BY_END
        /\ (/\ node.token \in {TOKEN_S2Eeqeq, TOKEN_C3NSTRprop}
            /\ Len(Children(node)) = 2)
            => node.nodes[2].end = FOLLOWED_BY_END

\* A fold has returned for a text in which the parser produced an S2Eapp
\* with three children, the first followed by "; " and the second by ", ".
C14_Witness ==
    /\ pc = "done"
    /\ \E node \in ParsedTerms :
            /\ node.token = TOKEN_S2Eapp /\ Len(Children(node)) = 3
            /\ node.nodes[1].end = FOLLOWED_BY_SEMI_COLON
            /\ node.nodes[2].end = FOLLOWED_BY_COMMA

=============================================================================
